---- MODULE Spec2Model ----
(***************************************************************************)
(* A model of sgl: the linear-system solver (solver.py), the plane         *)
(* constructor (plane.py) and the relation engine (calc.py).               *)
(*                                                                         *)
(* Numbers.  Python floats are modelled by exact decimal-scaled rationals  *)
(* <<n, d, e>> = (n / d) * 10^e in canonical form: d > 0 is coprime to n   *)
(* and to 10, and 10 does not divide n; zero is <<0, 1, 0>>.  The decimal  *)
(* exponent lets the model hold both 1/3 and 1e-12, so that the tolerance  *)
(* test |x| < 1e-10 is computed as the code computes it.  Rounding is not  *)
(* modelled.                                                               *)
(***************************************************************************)
EXTENDS Integers, Sequences, FiniteSets, TLC

VARIABLES pc, matrix, sol, args, result, result2, a, b

vars == <<pc, matrix, sol, args, result, result2, a, b>>

---------------------------------------------------------------------------
(* Bounds of the model *)

\* the entries of an input matrix are integers whose absolute values sum to
\* at most MaxWeight
MaxWeight == 4

\* the values a caller passes to a Solution are 1..MaxArg
MaxArg == 2

\* the coefficients of the first variable may be given in units of
\* 10^-TinyExp, which makes them nonzero and null
TinyExp == 11

---------------------------------------------------------------------------
(* Arithmetic *)

Abs(x) == IF x < 0 THEN -x ELSE x

Min(x, y) == IF x <= y THEN x ELSE y

RECURSIVE GCD(_, _)
GCD(x, y) == IF y = 0 THEN x ELSE GCD(y, x % y)

RECURSIVE Pow10(_)
Pow10(k) == IF k = 0 THEN 1 ELSE 10 * Pow10(k - 1)

\* canonical form: factors 2 and 5 leave the denominator, factors 10 leave
\* the numerator
RECURSIVE Strip(_, _, _)
Strip(n, d, e) ==
    IF d % 2 = 0 THEN Strip(5 * n, d \div 2, e - 1)
    ELSE IF d % 5 = 0 THEN Strip(2 * n, d \div 5, e - 1)
    ELSE IF n % 10 = 0 THEN Strip(n \div 10, d, e + 1)
    ELSE <<n, d, e>>

\* the number (n / d) * 10^e, d # 0
Num(n, d, e) ==
    IF n = 0 THEN <<0, 1, 0>>
    ELSE LET s == IF d < 0 THEN -1 ELSE 1
             g == GCD(Abs(n), Abs(d))
         IN  Strip((s * n) \div g, (s * d) \div g, e)

Flt(k) == Num(k, 1, 0)

Zero == Flt(0)

IsZero(x) == x[1] = 0

NNeg(x) == <<-x[1], x[2], x[3]>>

NAbs(x) == <<Abs(x[1]), x[2], x[3]>>

NMul(x, y) == Num(x[1] * y[1], x[2] * y[2], x[3] + y[3])

NAdd(x, y) ==
    IF IsZero(x) THEN y
    ELSE IF IsZero(y) THEN x
    ELSE LET e == Min(x[3], y[3])
         IN  Num(x[1] * Pow10(x[3] - e) * y[2] + y[1] * Pow10(y[3] - e) * x[2],
                 x[2] * y[2], e)

NSub(x, y) == NAdd(x, NNeg(y))

\* x / y, y # 0
NDiv(x, y) == Num(x[1] * y[2], x[2] * y[1], x[3] - y[3])

NLess(x, y) == NSub(x, y)[1] < 0

\* the tolerance of null() is 10^-TauExp
TauExp == 10

\* null(f): abs(f) < 1e-10, that is |n| * 10^(e + 10) < d, computed without
\* leaving 32 bits
null(f) ==
    LET k == f[3] + TauExp
    IN  IF f[1] = 0 THEN TRUE
        ELSE IF k >= 0
             THEN k <= 9 /\ Abs(f[1]) < (f[2] + Pow10(k) - 1) \div Pow10(k)
             ELSE -k > 9 \/ Abs(f[1]) \div Pow10(-k) < f[2]

\* nullrow(r): every entry of the row, the right-hand side included, is null
nullrow(r) == \A j \in 1..Len(r) : null(r[j])

---------------------------------------------------------------------------
(* scipy.linalg.lu(matrix, True): LU factorisation with partial pivoting   *)
(* (LAPACK getrf); the solver keeps U only                                 *)

\* the row of the largest |A[i][j]| among the rows j..M, the first of them
PivotRow(A, j) ==
    CHOOSE p \in j..Len(A) :
        /\ \A i \in j..Len(A) : ~NLess(NAbs(A[p][j]), NAbs(A[i][j]))
        /\ \A i \in j..(p - 1) : NLess(NAbs(A[i][j]), NAbs(A[p][j]))

SwapRows(A, i, j) ==
    [k \in 1..Len(A) |-> IF k = i THEN A[j] ELSE IF k = j THEN A[i] ELSE A[k]]

\* row - m * pivot
RowSub(row, m, pivot) ==
    [c \in 1..Len(row) |-> NSub(row[c], NMul(m, pivot[c]))]

\* column j of the factorisation: with an exactly zero pivot getrf leaves
\* the column as it is and goes on
Eliminate(A, j) ==
    LET p == PivotRow(A, j)
    IN  IF IsZero(A[p][j]) THEN A
        ELSE LET B == SwapRows(A, j, p)
             IN  [i \in 1..Len(A) |->
                     IF i <= j THEN B[i]
                     ELSE RowSub(B[i], NDiv(B[i][j], B[j][j]), B[j])]

RECURSIVE Factor(_, _)
Factor(A, j) ==
    IF j > Min(Len(A), Len(A[1])) THEN A
    ELSE Factor(Eliminate(A, j), j + 1)

\* U: the first min(M, N) rows of the factored matrix
lu(A) == SubSeq(Factor(A, 1), 1, Min(Len(A), Len(A[1])))

---------------------------------------------------------------------------
(* solver.py *)

None == <<>>

\* row[:-1]
Coeffs(row) == SubSeq(row, 1, Len(row) - 1)

\* row[-1]
Rhs(row) == row[Len(row)]

\* count(lambda i: not null(i), l)
count(l) == Cardinality({j \in 1..Len(l) : ~null(l[j])})

\* index(lambda i: not null(i), l), for a list that has such an item
index(l) == CHOOSE j \in 1..Len(l) :
                ~null(l[j]) /\ \A i \in 1..(j - 1) : null(l[i])

\* first_nonzero(r): the first non-null entry of the whole row, or len(r)
\* (here: Len(r) + 1, lists being counted from 1)
first_nonzero(r) ==
    IF nullrow(r) THEN Len(r) + 1
    ELSE CHOOSE j \in 1..Len(r) :
             ~null(r[j]) /\ \A i \in 1..(j - 1) : null(r[i])

\* a row 0a + 0b + ... = c with c not null
Contradiction(row) ==
    (\A j \in 1..(Len(row) - 1) : null(row[j])) /\ ~null(Rhs(row))

\* Solution.__init__
Solution(s) ==
    LET varcount == Len(s[1]) - 1
        unique_equations == Cardinality({i \in 1..Len(s) : ~nullrow(s[i])})
    IN  [ s        |-> s,
          varcount |-> varcount,
          solvable |-> ~(\E i \in 1..Len(s) : Contradiction(s[i])),
          varargs  |-> varcount - unique_equations,
          exact    |-> varcount - unique_equations = 0 ]

\* solve(matrix)
solve(m) == Solution(lu(m))

\* __call__, first loop: every row with exactly one non-null coefficient
\* fixes its variable; rows are scanned top to bottom
RECURSIVE Scan(_, _, _)
Scan(s, i, vals) ==
    IF i > Len(s) THEN vals
    ELSE IF count(Coeffs(s[i])) = 1
         THEN LET var == index(Coeffs(s[i]))
              IN  Scan(s, i + 1,
                       [vals EXCEPT ![var] = NDiv(Rhs(s[i]), s[i][var])])
         ELSE Scan(s, i + 1, vals)

\* __call__, second loop: from the last variable to the first, an
\* unresolved variable takes v.pop(); the loop ends when v is empty
RECURSIVE Fill(_, _, _)
Fill(vals, i, v) ==
    IF i < 1 \/ v = <<>> THEN vals
    ELSE IF vals[i] = None
         THEN Fill([vals EXCEPT ![i] = v[Len(v)]], i - 1,
                   SubSeq(v, 1, Len(v) - 1))
         ELSE Fill(vals, i - 1, v)

RECURSIVE Sum(_, _, _, _)
Sum(row, vals, j, last) ==
    IF j > last THEN Zero
    ELSE NAdd(NMul(NNeg(row[j]), vals[j]), Sum(row, vals, j + 1, last))

\* __call__, third loop: from the last row to the first, a row that is not
\* null gives its first non-null variable.  Reading an unresolved variable
\* (None) is a TypeError; a first non-null entry in the right-hand side
\* column is an IndexError.
RECURSIVE BackSubst(_, _, _)
BackSubst(s, i, vals) ==
    IF i < 1 THEN [tag |-> "ok", vals |-> vals]
    ELSE IF nullrow(s[i]) THEN BackSubst(s, i - 1, vals)
    ELSE LET row == s[i]
             tbd == first_nonzero(row)
         IN  IF \E j \in (tbd + 1)..(Len(row) - 1) : vals[j] = None
             THEN [tag |-> "TypeError", vals |-> <<>>]
             ELSE IF tbd > Len(vals)
             THEN [tag |-> "IndexError", vals |-> <<>>]
             ELSE BackSubst(s, i - 1,
                      [vals EXCEPT ![tbd] =
                          NDiv(NAdd(Sum(row, vals, tbd + 1, Len(row) - 1),
                                    Rhs(row)),
                               row[tbd])])

\* Solution.__call__ with the argument count checked before solvability
CallCountFirst(S, v) ==
    IF Len(v) # S.varargs THEN [tag |-> "CountMismatch", vals |-> <<>>]
    ELSE IF ~S.solvable THEN [tag |-> "NoSolution", vals |-> <<>>]
    ELSE BackSubst(S.s, Len(S.s),
                   Fill(Scan(S.s, 1, [j \in 1..S.varcount |-> None]),
                        S.varcount, v))

\* Solution.__call__(*v)
Call(S, v) ==
    IF ~S.solvable THEN [tag |-> "NoSolution", vals |-> <<>>]
    ELSE IF Len(v) # S.varargs THEN [tag |-> "CountMismatch", vals |-> <<>>]
    ELSE BackSubst(S.s, Len(S.s),
                   Fill(Scan(S.s, 1, [j \in 1..S.varcount |-> None]),
                        S.varcount, v))

---------------------------------------------------------------------------
(* Inputs *)

\* the integer vectors of length len whose absolute values sum to at most w
RECURSIVE Vectors(_, _)
Vectors(len, w) ==
    IF len = 0 THEN {<<>>}
    ELSE UNION {{<<x>> \o v : v \in Vectors(len - 1, w - Abs(x))} :
                   x \in (-w)..w}

\* the shapes the callers of solve() use: Plane._init_gf (1 x 4),
\* Plane/Plane intersection (2 x 4), Line/Line intersection (3 x 3)
Shapes == {<<1, 4>>, <<2, 4>>, <<3, 3>>}

\* the number k * 10^-s of an integer k with 0 < |k| < 10 (canonical as it
\* stands), or zero
Entry(k, s) == IF k = 0 THEN <<0, 1, 0>> ELSE <<k, 1, -s>>

\* the rows x cols matrix of the entries of v, row by row, the coefficients
\* of its first variable times 10^-s
Shape(v, rows, cols, s) ==
    [i \in 1..rows |->
        [j \in 1..cols |->
            Entry(v[(i - 1) * cols + j], IF j = 1 THEN s ELSE 0)]]

\* the argument lists of a query: no to three values
ArgLists ==
    UNION {[1..k -> {Flt(x) : x \in 1..MaxArg}] : k \in 0..3}

NoSol == [s |-> <<>>, varcount |-> 0, solvable |-> FALSE, varargs |-> 0,
          exact |-> FALSE]

NoResult == [tag |-> "none", vals |-> <<>>]

NoObj == [kind |-> "none"]

---------------------------------------------------------------------------
(* The solver: a caller builds a matrix, solves it and queries the         *)
(* Solution.  A query leaves the Solution as it is, so that a second query *)
(* finds what the first one found: one query per run reaches every result. *)

InitSolver ==
    /\ pc = "input"
    /\ \E sh \in Shapes, s \in {0, TinyExp} :
          \E v \in Vectors(sh[1] * sh[2], MaxWeight) :
             matrix = Shape(v, sh[1], sh[2], s)
    /\ sol = NoSol
    /\ args = <<>>
    /\ result = NoResult
    /\ result2 = NoResult
    /\ a = NoObj
    /\ b = NoObj

\* s = solve(matrix)
Solve ==
    /\ pc = "input"
    /\ sol' = solve(matrix)
    /\ pc' = "solved"
    /\ UNCHANGED <<matrix, args, result, result2, a, b>>

\* s(*v)
Query ==
    /\ pc = "solved"
    /\ \E v \in ArgLists :
          /\ args' = v
          /\ result' = Call(sol, v)
    /\ pc' = "queried"
    /\ UNCHANGED <<matrix, sol, result2, a, b>>

NextSolver == Solve \/ Query

SpecSolver == InitSolver /\ [][NextSolver]_vars

---------------------------------------------------------------------------
(* What the claims about the solver speak of *)

\* the rank of A, by an elimination that looks for a pivot in every column
\* among the rows not used yet (rows 1..r-1 hold the pivots found before
\* column c)
RECURSIVE RankFrom(_, _, _)
RankFrom(A, c, r) ==
    IF c > Len(A[1]) \/ r > Len(A) THEN r - 1
    ELSE IF \A i \in r..Len(A) : IsZero(A[i][c]) THEN RankFrom(A, c + 1, r)
    ELSE LET p == CHOOSE i \in r..Len(A) : ~IsZero(A[i][c])
             B == SwapRows(A, r, p)
         IN  RankFrom([i \in 1..Len(A) |->
                          IF i <= r THEN B[i]
                          ELSE RowSub(B[i], NDiv(B[i][c], B[r][c]), B[r])],
                      c + 1, r + 1)

Rank(A) == RankFrom(A, 1, 1)

\* the linear system of an augmented matrix has a solution (Rouche-Capelli)
Consistent(m) == Rank([i \in 1..Len(m) |-> Coeffs(m[i])]) = Rank(m)

\* every entry of the matrix is an integer
IntegerMatrix(m) ==
    \A i \in 1..Len(m) : \A j \in 1..Len(m[i]) :
        m[i][j][2] = 1 /\ m[i][j][3] >= 0

Resolved(vals) == \A j \in 1..Len(vals) : vals[j] # None

\* sum of coeff_j * val_j equals the right-hand side, within the tolerance
RowHolds(row, vals) ==
    null(NAdd(Sum(row, vals, 1, Len(row) - 1), Rhs(row)))

\* a row whose coefficients are all exactly zero, with a right-hand side
\* that is not null
ZeroContradiction(row) ==
    (\A j \in 1..(Len(row) - 1) : IsZero(row[j])) /\ ~null(Rhs(row))

\* C1: for a consistent system (here: of integer entries), a query with
\* exactly free-parameter-count arguments returns a tuple of resolved values
\* that satisfies every row of the input matrix within the tolerance
C1_QuerySatisfiesInput ==
    (/\ pc = "queried"
     /\ IntegerMatrix(matrix)
     /\ Consistent(matrix)
     /\ Len(args) = sol.varargs)
    => (/\ result.tag = "ok"
        /\ Resolved(result.vals)
        /\ \A i \in 1..Len(matrix) : RowHolds(matrix[i], result.vals))

\* C2: solve(matrix) is falsy if and only if the input system (here: of
\* integer entries) has no solution
C2_FalsyIffInconsistent ==
    (pc # "input" /\ IntegerMatrix(matrix))
    => (~sol.solvable <=> ~Consistent(matrix))

\* C3, as claimed: an input row with all coefficients null and a right-hand
\* side that is not null makes the Solution falsy
C3_NullRowFalsy ==
    (pc # "input" /\ \E i \in 1..Len(matrix) : Contradiction(matrix[i]))
    => ~sol.solvable

\* C3, amended: an input row with all coefficients exactly zero and a
\* right-hand side that is not null makes the Solution falsy, and every
\* query of a falsy Solution fails with "no solution" and returns no
\* values, whatever the number of arguments
C3_ZeroRowFalsyAndQueryFails ==
    /\ (pc # "input" /\ \E i \in 1..Len(matrix) : ZeroContradiction(matrix[i]))
       => ~sol.solvable
    /\ (pc = "queried" /\ ~sol.solvable)
       => (result.tag = "NoSolution" /\ result.vals = <<>>)

\* C3: a matrix with a zero-coefficient contradiction row beside other rows
\* has been reduced with a row exchange or an elimination, and a query
\* with the wrong number of arguments has failed with "no solution"
C3_Witness ==
    /\ pc = "queried"
    /\ \E i \in 1..Len(matrix) : ZeroContradiction(matrix[i])
    /\ Len(matrix) > 1
    /\ sol.s # matrix
    /\ ~sol.solvable
    /\ Len(args) # sol.varargs
    /\ result.tag = "NoSolution"

---------------------------------------------------------------------------
(* Vectors, points, lines and planes.  A vector and the coordinates of a   *)
(* point are triples of numbers.                                           *)

\* Vector + Vector
VAdd(u, v) == [i \in 1..3 |-> NAdd(u[i], v[i])]

\* Vector - Vector
VSub(u, v) == [i \in 1..3 |-> NSub(u[i], v[i])]

\* scalar * Vector
VScale(k, v) == [i \in 1..3 |-> NMul(k, v[i])]

\* Vector * Vector (dot product)
VDot(u, v) ==
    NAdd(NMul(u[1], v[1]), NAdd(NMul(u[2], v[2]), NMul(u[3], v[3])))

\* Vector.cross
VCross(u, v) ==
    << NSub(NMul(u[2], v[3]), NMul(u[3], v[2])),
       NSub(NMul(u[3], v[1]), NMul(u[1], v[3])),
       NSub(NMul(u[1], v[2]), NMul(u[2], v[1])) >>

\* Vector.orthogonal: the dot product is null
VOrthogonal(u, v) == null(VDot(u, v))

\* Vector.parallel: the cross product is null in every component
VParallel(u, v) == \A i \in 1..3 : null(VCross(u, v)[i])

\* the vector of three integers, in units of 10^-s
IntVector(v, s) == [i \in 1..3 |-> Entry(v[i], s)]

Point(c) == [kind |-> "Point", c |-> c]

\* Line(support, direction)
Line(sv, dv) == [kind |-> "Line", sv |-> sv, dv |-> dv]

\* Plane._init_pn(p, normale)
Plane(p, n) == [kind |-> "Plane", p |-> p, n |-> n]

\* an exception raised instead of an object or a value
Raised(tag) == [kind |-> "Error", tag |-> tag]

\* a coordinate of c is unresolved
HasNone(c) == \E i \in 1..Len(c) : c[i] = None

\* Plane._init_gf(a, b, c, d), g = <<a, b, c, d>>: the normal is (a, b, c),
\* the point is the Solution of the one equation queried at (1, 1).  An
\* unresolved coordinate (None) is kept by the point or makes its
\* constructor fail: keep says which.
init_gf(g, keep) ==
    LET solution == solve(<<g>>)
        q == Call(solution, <<Flt(1), Flt(1)>>)
    IN  IF q.tag # "ok" THEN Raised(q.tag)
        ELSE IF HasNone(q.vals) /\ ~keep THEN Raised("TypeError")
        ELSE Plane(q.vals, SubSeq(g, 1, 3))

\* Plane.general_form(): (n[0], n[1], n[2], n * p.pv()); the product with
\* an unresolved coordinate raises
general_form(pl) ==
    IF HasNone(pl.p) THEN [tag |-> "TypeError", val |-> <<>>]
    ELSE [tag |-> "ok",
          val |-> <<pl.n[1], pl.n[2], pl.n[3], VDot(pl.n, pl.p)>>]

---------------------------------------------------------------------------
(* A plane is built from its general form and asked for it again *)

InitPlane ==
    /\ pc = "input"
    /\ \E v \in Vectors(4, MaxWeight) : matrix = Shape(v, 1, 4, 0)
    /\ sol = NoSol
    /\ args = <<>>
    /\ result = NoResult
    /\ result2 = NoResult
    /\ a = NoObj
    /\ b = NoObj

\* a = Plane(a, b, c, d)
ConstructGF ==
    /\ pc = "input"
    /\ \E keep \in BOOLEAN : a' = init_gf(matrix[1], keep)
    /\ sol' = solve(matrix)
    /\ args' = <<Flt(1), Flt(1)>>
    /\ pc' = "constructed"
    /\ UNCHANGED <<matrix, result, result2, b>>

\* a.general_form()
GeneralForm ==
    /\ pc = "constructed"
    /\ a.kind = "Plane"
    /\ result' = general_form(a)
    /\ pc' = "derived"
    /\ UNCHANGED <<matrix, sol, args, result2, a, b>>

NextPlane == ConstructGF \/ GeneralForm

SpecPlane == InitPlane /\ [][NextPlane]_vars

\* u is a nonzero scalar multiple of the nonzero v
Proportional(u, v) ==
    /\ Len(u) = Len(v)
    /\ \E j \in 1..Len(u) : ~IsZero(u[j])
    /\ \A j \in 1..Len(u) : \A k \in 1..Len(u) :
          NMul(u[j], v[k]) = NMul(u[k], v[j])

\* C4: for (a, b, c) not the zero vector, Plane(a, b, c, d) is built, its
\* point has three resolved coordinates and satisfies a*x + b*y + c*z = d,
\* and general_form() returns a nonzero scalar multiple of (a, b, c, d)
C4_GeneralFormReproduces ==
    LET g == matrix[1]
        nonzero == \E j \in 1..3 : ~IsZero(g[j])
    IN  /\ (pc # "input" /\ nonzero)
           => (a.kind = "Plane" /\ ~HasNone(a.p) /\ RowHolds(g, a.p))
        /\ (pc = "derived" /\ nonzero)
           => (result.tag = "ok" /\ Proportional(result.val, g))

---------------------------------------------------------------------------
(* calc.py: parallel, orthogonal, intersection *)

NoneObj == [kind |-> "None"]

Ok(v) == [tag |-> "ok", val |-> v]

Fail(tag) == [tag |-> tag, val |-> <<>>]

\* parallel(a, b)
parallel(x, y) ==
    CASE x.kind = "Line" /\ y.kind = "Line" -> VParallel(x.dv, y.dv)
      [] x.kind = "Line" /\ y.kind = "Plane" -> VOrthogonal(x.dv, y.n)
      [] x.kind = "Plane" /\ y.kind = "Line" -> VOrthogonal(y.dv, x.n)
      [] x.kind = "Plane" /\ y.kind = "Plane" -> VParallel(x.n, y.n)

\* orthogonal(a, b)
orthogonal(x, y) ==
    CASE x.kind = "Line" /\ y.kind = "Line" -> null(VDot(x.dv, y.dv))
      [] x.kind = "Line" /\ y.kind = "Plane" -> VParallel(x.dv, y.n)
      [] x.kind = "Plane" /\ y.kind = "Line" -> VParallel(y.dv, x.n)
      [] x.kind = "Plane" /\ y.kind = "Plane" -> VOrthogonal(x.n, y.n)

\* Plane.__contains__: a point lies on the plane when the two dot products
\* are equal (==, no tolerance); a line when its support point does and the
\* plane is parallel to it
contains(pl, other) ==
    IF other.kind = "Point"
    THEN VDot(other.c, pl.n) = VDot(pl.p, pl.n)
    ELSE VDot(other.sv, pl.n) = VDot(pl.p, pl.n) /\ parallel(pl, other)

\* the system of Line/Line intersection: s + lambda u = t + mu v
LineSystem(la, lb) ==
    [i \in 1..3 |-> <<la.dv[i], NNeg(lb.dv[i]), NSub(lb.sv[i], la.sv[i])>>]

\* the system of Plane/Plane intersection: both general forms
PlaneSystem(pa, pb) ==
    << <<pa.n[1], pa.n[2], pa.n[3], VDot(pa.n, pa.p)>>,
       <<pb.n[1], pb.n[2], pb.n[3], VDot(pb.n, pb.p)>> >>

\* intersection(a, b), two lines
intersectionLines(la, lb) ==
    LET solution == solve(LineSystem(la, lb))
        q == Call(solution, <<>>)
    IN  IF ~solution.solvable THEN Ok(NoneObj)
        ELSE IF q.tag # "ok" THEN Fail(q.tag)
        ELSE IF q.vals[1] = None THEN Fail("TypeError")
        ELSE Ok(Point(VAdd(la.sv, VScale(q.vals[1], la.dv))))

\* intersection(a, b), a line and a plane, with the parallel test made
\* before the containment test
intersectionLinePlaneParallelFirst(l, pl) ==
    IF parallel(l, pl) THEN Ok(NoneObj)
    ELSE IF contains(pl, l) THEN Ok(l)
    ELSE LET mu == NDiv(NSub(VDot(pl.n, pl.p), VDot(pl.n, l.sv)),
                        VDot(pl.n, l.dv))
         IN  Ok(Point(VAdd(l.sv, VScale(mu, l.dv))))

\* intersection(a, b), a line and a plane
intersectionLinePlane(l, pl) ==
    IF contains(pl, l) THEN Ok(l)
    ELSE IF parallel(l, pl) THEN Ok(NoneObj)
    ELSE LET mu == NDiv(NSub(VDot(pl.n, pl.p), VDot(pl.n, l.sv)),
                        VDot(pl.n, l.dv))
         IN  Ok(Point(VAdd(l.sv, VScale(mu, l.dv))))

\* intersection(a, b), two planes: the line through the solutions at the
\* free-parameter values 1 and 2; a point with an unresolved coordinate
\* raises when it is built or subtracted
intersectionPlanes(pa, pb) ==
    LET solution == solve(PlaneSystem(pa, pb))
        q1 == Call(solution, <<Flt(1)>>)
        q2 == Call(solution, <<Flt(2)>>)
    IN  IF ~solution.solvable THEN Ok(NoneObj)
        ELSE IF q1.tag # "ok" THEN Fail(q1.tag)
        ELSE IF q2.tag # "ok" THEN Fail(q2.tag)
        ELSE IF HasNone(q1.vals) \/ HasNone(q2.vals) THEN Fail("TypeError")
        ELSE Ok(Line(q1.vals, VSub(q2.vals, q1.vals)))

\* intersection(a, b)
intersection(x, y) ==
    CASE x.kind = "Line" /\ y.kind = "Line" -> intersectionLines(x, y)
      [] x.kind = "Line" /\ y.kind = "Plane" -> intersectionLinePlane(x, y)
      [] x.kind = "Plane" /\ y.kind = "Line" -> intersectionLinePlane(y, x)
      [] x.kind = "Plane" /\ y.kind = "Plane" -> intersectionPlanes(x, y)
      [] OTHER -> Ok("NotImplemented")

---------------------------------------------------------------------------
(* Inputs of the relation engine: points, lines and planes of integer      *)
(* coordinates; a direction or normal vector is not the zero vector        *)

NonZero(v) == \E i \in 1..Len(v) : v[i] # 0

\* the two lines given by twelve integers, the directions in units of
\* 10^-s
TwoLines(v, s) ==
    << Line(IntVector(SubSeq(v, 1, 3), 0), IntVector(SubSeq(v, 4, 6), s)),
       Line(IntVector(SubSeq(v, 7, 9), 0), IntVector(SubSeq(v, 10, 12), s)) >>

TwoPlanes(v, s) ==
    << Plane(IntVector(SubSeq(v, 1, 3), 0), IntVector(SubSeq(v, 4, 6), s)),
       Plane(IntVector(SubSeq(v, 7, 9), 0), IntVector(SubSeq(v, 10, 12), s)) >>

LineAndPlane(v, s) ==
    << Line(IntVector(SubSeq(v, 1, 3), 0), IntVector(SubSeq(v, 4, 6), s)),
       Plane(IntVector(SubSeq(v, 7, 9), 0), IntVector(SubSeq(v, 10, 12), s)) >>

\* the sum of the absolute values of the integers of v
RECURSIVE Weight(_)
Weight(v) == IF v = <<>> THEN 0 ELSE Abs(Head(v)) + Weight(Tail(v))

\* the six integers of a line or a plane, a point and a nonzero direction
\* or normal, each with its weight; the weight is at most MaxWeight - 1
\* since the other object has a weight of 1 at least
Six ==
    {<<Weight(v), v>> :
        v \in {u \in Vectors(6, MaxWeight - 1) : NonZero(SubSeq(u, 4, 6))}}

\* twelve integers of total weight at most MaxWeight with nonzero direction
\* (or normal) vectors at the places 4..6 and 10..12
Twelve ==
    {q[1][2] \o q[2][2] :
        q \in {r \in Six \X Six : r[1][1] + r[2][1] <= MaxWeight}}

InitObjects(objs) ==
    /\ pc = "input"
    /\ a = objs[1]
    /\ b = objs[2]
    /\ matrix = <<>>
    /\ sol = NoSol
    /\ args = <<>>
    /\ result = NoResult
    /\ result2 = NoResult

---------------------------------------------------------------------------
(* Two lines are intersected *)

InitLines == \E v \in Twelve : InitObjects(TwoLines(v, 0))

\* intersection(a, b)
IntersectLines ==
    /\ pc = "input"
    /\ matrix' = LineSystem(a, b)
    /\ sol' = solve(LineSystem(a, b))
    /\ result' = intersection(a, b)
    /\ pc' = "done"
    /\ UNCHANGED <<args, result2, a, b>>

\* intersection(b, a)
IntersectLinesSwapped ==
    /\ pc = "done"
    /\ result2' = intersection(b, a)
    /\ pc' = "both"
    /\ UNCHANGED <<matrix, sol, args, result, a, b>>

NextLines == IntersectLines \/ IntersectLinesSwapped

SpecLines == InitLines /\ [][NextLines]_vars

\* the point c lies on the line l
OnLine(c, l) == \A i \in 1..3 : IsZero(VCross(VSub(c, l.sv), l.dv)[i])

\* the point c lies on the plane pl
OnPlane(c, pl) == IsZero(NSub(VDot(c, pl.n), VDot(pl.p, pl.n)))

\* C5: intersection of two lines never fails: it is null when the 3-row
\* system is unsolvable and otherwise a Point that lies on both lines
C5_LinesIntersectOrNull ==
    pc # "input"
    => /\ result.tag = "ok"
       /\ IF sol.solvable
          THEN /\ result.val.kind = "Point"
               /\ OnLine(result.val.c, a)
               /\ OnLine(result.val.c, b)
          ELSE result.val = NoneObj

---------------------------------------------------------------------------
(* Two planes are intersected *)

InitPlanes == \E v \in Twelve : InitObjects(TwoPlanes(v, 0))

\* intersection(a, b)
IntersectPlanes ==
    /\ pc = "input"
    /\ matrix' = PlaneSystem(a, b)
    /\ sol' = solve(PlaneSystem(a, b))
    /\ result' = intersection(a, b)
    /\ pc' = "done"
    /\ UNCHANGED <<args, result2, a, b>>

\* intersection(b, a)
IntersectPlanesSwapped ==
    /\ pc = "done"
    /\ result2' = intersection(b, a)
    /\ pc' = "both"
    /\ UNCHANGED <<matrix, sol, args, result, a, b>>

NextPlanes == IntersectPlanes \/ IntersectPlanesSwapped

SpecPlanes == InitPlanes /\ [][NextPlanes]_vars

\* C6: when the 2-row system of two planes is solvable, intersection
\* returns a Line with a nonzero direction orthogonal to both normals whose
\* support point lies on both planes
C6_PlanesIntersectInLine ==
    (pc # "input" /\ sol.solvable)
    => /\ result.tag = "ok"
       /\ result.val.kind = "Line"
       /\ \E i \in 1..3 : ~IsZero(result.val.dv[i])
       /\ IsZero(VDot(result.val.dv, a.n))
       /\ IsZero(VDot(result.val.dv, b.n))
       /\ OnPlane(result.val.sv, a)
       /\ OnPlane(result.val.sv, b)

\* C10: when the 2-row system of two planes is solvable its free-parameter
\* count is 1, and the one-argument queries do not fail with a count
\* mismatch
C10_OneFreeParameter ==
    (pc # "input" /\ sol.solvable)
    => (sol.varargs = 1 /\ result.tag # "CountMismatch")

---------------------------------------------------------------------------
(* calc.py: distance.  A length is the square root of a number that is     *)
(* not negative: the model keeps the number under the root, sq.            *)

\* Vector.length(): sqrt(v * v)
VLength(v) == [sq |-> VDot(v, v)]

\* distance(a, b), two points: the length of the vector from a to b
distancePoints(x, y) == Ok(VLength(VSub(y.c, x.c)))

\* distance(a, foot), a point and what intersection() returned: a Point, or
\* null (no branch of distance() takes it: NotImplemented), or the auxiliary
\* line itself, for which distance() calls itself with the same arguments
\* without end
distanceFoot(x, foot) ==
    IF foot.tag # "ok" THEN Fail(foot.tag)
    ELSE CASE foot.val.kind = "Point" -> distancePoints(x, foot.val)
           [] foot.val.kind = "Line" -> Fail("RecursionError")
           [] OTHER -> Fail("NotImplemented")

\* distance(a, b), a point and a line: the foot is where the plane through
\* the point with the line's direction as normal meets the line
distancePointLine(x, l) ==
    distanceFoot(x, intersection(Plane(x.c, l.dv), l))

\* distance(a, b), a point and a plane: the foot is where the line through
\* the point along the plane's normal meets the plane
distancePointPlane(x, pl) ==
    distanceFoot(x, intersection(Line(x.c, pl.n), pl))

\* distance(a, b), two lines: |(b.sv - a.sv) * n| with n the normalized
\* cross product of the directions, cross / |cross|.  For a cross product
\* of length zero the division fails or gives nan: zd says which.
distanceLines(la, lb, zd) ==
    LET cross == VCross(la.dv, lb.dv)
        len2 == VDot(cross, cross)
        d == VDot(VSub(lb.sv, la.sv), cross)
    IN  IF IsZero(len2) THEN Fail(zd)
        ELSE Ok([sq |-> NDiv(NMul(d, d), len2)])

\* distance(a, b), a line and a plane
distanceLinePlane(l, pl) ==
    IF parallel(l, pl) THEN distancePointPlane(Point(l.sv), pl)
    ELSE Ok([sq |-> Zero])

\* distance(a, b)
distance(x, y, zd) ==
    CASE x.kind = "Point" /\ y.kind = "Point" -> distancePoints(x, y)
      [] x.kind = "Point" /\ y.kind = "Line" -> distancePointLine(x, y)
      [] x.kind = "Line" /\ y.kind = "Point" -> distancePointLine(y, x)
      [] x.kind = "Line" /\ y.kind = "Line" -> distanceLines(x, y, zd)
      [] x.kind = "Point" /\ y.kind = "Plane" -> distancePointPlane(x, y)
      [] x.kind = "Plane" /\ y.kind = "Point" -> distancePointPlane(y, x)
      [] x.kind = "Line" /\ y.kind = "Plane" -> distanceLinePlane(x, y)
      [] x.kind = "Plane" /\ y.kind = "Line" -> distanceLinePlane(y, x)
      [] OTHER -> Fail("NotImplemented")

\* what a division by a length of zero does
ZeroDivision == {"ZeroDivisionError", "nan"}

---------------------------------------------------------------------------
(* The distance of two objects is taken, in both orders *)

TwoPoints(v) ==
    <<Point(IntVector(SubSeq(v, 1, 3), 0)), Point(IntVector(SubSeq(v, 4, 6), 0))>>

PointAndLine(v) ==
    << Point(IntVector(SubSeq(v, 1, 3), 0)),
       Line(IntVector(SubSeq(v, 4, 6), 0), IntVector(SubSeq(v, 7, 9), 0)) >>

PointAndPlane(v) ==
    << Point(IntVector(SubSeq(v, 1, 3), 0)),
       Plane(IntVector(SubSeq(v, 4, 6), 0), IntVector(SubSeq(v, 7, 9), 0)) >>

Swap(objs) == <<objs[2], objs[1]>>

InitDistance ==
    \/ \E v \in Vectors(6, MaxWeight) :
          InitObjects(TwoPoints(v))
    \/ \E v \in {w \in Vectors(9, MaxWeight) : NonZero(SubSeq(w, 7, 9))} :
          \/ InitObjects(PointAndLine(v))
          \/ InitObjects(Swap(PointAndLine(v)))
          \/ InitObjects(PointAndPlane(v))
          \/ InitObjects(Swap(PointAndPlane(v)))
    \/ \E v \in Twelve :
          \/ InitObjects(TwoLines(v, 0))
          \/ InitObjects(LineAndPlane(v, 0))
          \/ InitObjects(Swap(LineAndPlane(v, 0)))

\* distance(a, b)
Distance ==
    /\ pc = "input"
    /\ \E zd \in ZeroDivision : result' = distance(a, b, zd)
    /\ pc' = "done"
    /\ UNCHANGED <<matrix, sol, args, result2, a, b>>

\* distance(b, a)
DistanceSwapped ==
    /\ pc = "done"
    /\ \E zd \in ZeroDivision : result2' = distance(b, a, zd)
    /\ pc' = "both"
    /\ UNCHANGED <<matrix, sol, args, result, a, b>>

NextDistance == Distance \/ DistanceSwapped

SpecDistance == InitDistance /\ [][NextDistance]_vars

\* C7: distance(a, b) returns a real number that is not negative, without
\* an error, for every supported pair of kinds
C7_DistanceDefined ==
    pc # "input" => (result.tag = "ok" /\ ~NLess(result.val.sq, Zero))

\* C8: distance(a, b) equals distance(b, a): both are numbers, the same
C8_DistanceSymmetric ==
    pc = "both"
    => (result.tag = "ok" /\ result2.tag = "ok" /\ result.val = result2.val)

---------------------------------------------------------------------------
(* Two lines or planes are tested for being parallel and for being         *)
(* orthogonal                                                              *)

InitRelations ==
    \E v \in Twelve, s \in {0, TinyExp} :
        \/ InitObjects(TwoLines(v, s))
        \/ InitObjects(LineAndPlane(v, s))
        \/ InitObjects(Swap(LineAndPlane(v, s)))
        \/ InitObjects(TwoPlanes(v, s))

\* parallel(a, b)
Parallel ==
    /\ pc = "input"
    /\ result' = Ok(parallel(a, b))
    /\ pc' = "done"
    /\ UNCHANGED <<matrix, sol, args, result2, a, b>>

\* orthogonal(a, b)
Orthogonal ==
    /\ pc = "done"
    /\ result2' = Ok(orthogonal(a, b))
    /\ pc' = "both"
    /\ UNCHANGED <<matrix, sol, args, result, a, b>>

NextRelations == Parallel \/ Orthogonal

SpecRelations == InitRelations /\ [][NextRelations]_vars

\* C9: with nonzero direction and normal vectors, parallel(a, b) and
\* orthogonal(a, b) are never both true
C9_NotParallelAndOrthogonal ==
    pc = "both" => ~(result.val /\ result2.val)

---------------------------------------------------------------------------
(* The three resolution steps of a query *)

\* the variables that take a supplied value: unresolved after the first
\* loop of the query, resolved after the second
Supplied(S, v) ==
    LET scanned == Scan(S.s, 1, [j \in 1..S.varcount |-> None])
        filled == Fill(scanned, S.varcount, v)
    IN  {j \in 1..S.varcount : scanned[j] = None /\ filled[j] # None}

\* the value the variable j took in the second loop
SuppliedValue(S, v, j) ==
    Fill(Scan(S.s, 1, [k \in 1..S.varcount |-> None]), S.varcount, v)[j]

\* C11: on a solvable Solution a query with exactly free-parameter-count
\* arguments returns n values, every variable resolved, every supplied
\* value still the value of the variable it was assigned to, and no
\* back-substitution reads an unresolved variable
C11_QueryResolvesAll ==
    (pc = "queried" /\ sol.solvable /\ Len(args) = sol.varargs)
    => /\ result.tag = "ok"
       /\ Len(result.vals) = sol.varcount
       /\ Resolved(result.vals)
       /\ \A j \in Supplied(sol, args) :
             result.vals[j] = SuppliedValue(sol, args, j)

---------------------------------------------------------------------------
(* A line and a plane are intersected, in both orders *)

InitLinePlane ==
    \E v \in Twelve, s \in {0, TinyExp} : InitObjects(LineAndPlane(v, s))

\* intersection(a, b), a the line and b the plane
IntersectLinePlane ==
    /\ pc = "input"
    /\ result' = intersection(a, b)
    /\ pc' = "done"
    /\ UNCHANGED <<matrix, sol, args, result2, a, b>>

\* intersection(b, a)
IntersectPlaneLine ==
    /\ pc = "done"
    /\ result2' = intersection(b, a)
    /\ pc' = "both"
    /\ UNCHANGED <<matrix, sol, args, result, a, b>>

NextLinePlane == IntersectLinePlane \/ IntersectPlaneLine

SpecLinePlane == InitLinePlane /\ [][NextLinePlane]_vars

\* mu = (n.p - n.sv) / (n.dv)
Mu(l, pl) ==
    NDiv(NSub(VDot(pl.n, pl.p), VDot(pl.n, l.sv)), VDot(pl.n, l.dv))

\* C12: intersection(a, b) of a line a and a plane b is the line a itself
\* when its support point lies on b and a is parallel to b, null when a is
\* parallel to b and not contained, and otherwise the Point
\* a.sv + mu * a.dv, which lies on the line and on the plane, the divisor
\* n.dv being non-null; intersection(b, a) returns the same
C12_LinePlaneOutcomes ==
    /\ pc # "input"
       => /\ result.tag = "ok"
          /\ IF parallel(a, b)
             THEN IF OnPlane(a.sv, b) THEN result.val = a
                  ELSE result.val = NoneObj
             ELSE /\ ~null(VDot(b.n, a.dv))
                  /\ result.val = Point(VAdd(a.sv, VScale(Mu(a, b), a.dv)))
                  /\ OnLine(result.val.c, a)
                  /\ OnPlane(result.val.c, b)
    /\ pc = "both" => result2 = result

\* a line that meets the plane in one point, not its support point, and
\* both orders of the arguments taken
C12_Witness ==
    /\ pc = "both"
    /\ result.tag = "ok"
    /\ result.val.kind = "Point"
    /\ result.val.c # a.sv
    /\ result2 = result

====
